---- MODULE Spec2Model ----
(***************************************************************************)
(* Model of the sudoku solver: the SudokuSolver class                      *)
(* (controllers/sudoku-solver.js) and the two routes that share one        *)
(* instance of it (routes/api.js).                                         *)
(*                                                                         *)
(* JavaScript values are encoded as integers: a number n >= 0 is n, null   *)
(* is NULL and NaN is NaN.  Strings are sequences of one-character         *)
(* strings, so that length, split, join, regular expressions and           *)
(* conversion to numbers are computed and not assumed.                     *)
(***************************************************************************)
EXTENDS Integers, Sequences, FiniteSets, TLC

VARIABLES
  sudokuBoard,    \* this.sudokuBoard: region -> region row -> cell
  deterministic,  \* this.deterministic
  pc,             \* "idle", or "loop" while solve() is in its while loop
  puzzle,         \* req.body.puzzle of the request being handled
  coordinate,     \* req.body.coordinate
  value,          \* req.body.value
  attemptStack,   \* solve(): attemptStack
  attemptCount,   \* solve(): attemptCount
  solution,       \* the string solve() returned to the /api/solve handler
  response,       \* the object given to res.json, NoResponse until then
  called,         \* the solver methods the handler of this request has called
  placement,      \* <<row, column, value>> given to the placement predicates
  lastSolve,      \* observer: puzzle and result of the solve before this one
  requests,       \* the number of requests the server has received
  route           \* the route of the last request, "none" before the first

vars == <<sudokuBoard, deterministic, pc, puzzle, coordinate, value,
          attemptStack, attemptCount, solution, response, called, placement,
          lastSolve, requests, route>>

-----------------------------------------------------------------------------
(* JavaScript values and strings *)

NULL == -1
NaN == -2

Truthy(v) == v \notin {NULL, NaN, 0}

Range(s) == {s[k] : k \in DOMAIN s}

DigitChars == <<"0", "1", "2", "3", "4", "5", "6", "7", "8", "9">>

IsDigitChar(ch) == \E k \in 1..10 : DigitChars[k] = ch

DigitValue(ch) == CHOOSE k \in 0..9 : DigitChars[k + 1] = ch

\* Number(s) for a string of the alphabet used here: decimal digits give the
\* number, the empty string gives 0, anything else gives NaN.
RECURSIVE DecimalValue(_)
DecimalValue(s) ==
  IF s = <<>> THEN 0
  ELSE 10 * DecimalValue(SubSeq(s, 1, Len(s) - 1)) + DigitValue(s[Len(s)])

ToNumber(s) ==
  IF \A k \in 1..Len(s) : IsDigitChar(s[k]) THEN DecimalValue(s) ELSE NaN

\* String(n) of a cell value 1..9, as getStringFromBoard's join renders it.
NumberToChar(n) == DigitChars[n + 1]

\* x - y, x * 9 + y on numbers that may be NaN
Minus(x, y) == IF x = NaN \/ y = NaN THEN NaN ELSE x - y

CellIndex(row, column) ==
  IF row = NaN \/ column = NaN THEN NaN ELSE (row * 9) + column

CodePoints ==
  [ch \in {"A", "B", "C", "D", "E", "F", "G", "H", "I", "K"} |->
     CASE ch = "A" -> 65 [] ch = "B" -> 66 [] ch = "C" -> 67 [] ch = "D" -> 68
       [] ch = "E" -> 69 [] ch = "F" -> 70 [] ch = "G" -> 71 [] ch = "H" -> 72
       [] ch = "I" -> 73 [] ch = "K" -> 75]

codePointAt(ch) ==
  IF ch \in DOMAIN CodePoints THEN CodePoints[ch]
  ELSE IF IsDigitChar(ch) THEN 48 + DigitValue(ch)
  ELSE IF ch = "." THEN 46
  ELSE IF ch = "a" THEN 97
  ELSE 120  \* "x"

\* sub occurs in s as a contiguous substring (an unanchored literal pattern)
Contains(s, sub) ==
  \E k \in 0..(Len(s) - Len(sub)) :
    \A j \in 1..Len(sub) : s[k + j] = sub[j]

\* a % b of JavaScript: the remainder has the sign of the dividend
JsRem(a, b) == IF a >= 0 THEN a % b ELSE -((-a) % b)

-----------------------------------------------------------------------------
(* sudoku-solver.js: set utilities *)

\* the value of an expression, computed once: the element of a one-element set
The(S) == CHOOSE x \in S : TRUE

completedSet == 1..9

symmetricDifference(setA, setB) == (setA \ setB) \cup (setB \ setA)

isValidValue(valueSet, v) ==
  LET values == Range(valueSet) \ {NULL}
      validValues == symmetricDifference(values, completedSet)
  IN  v \in validValues

\* [...set] of a set that symmetricDifference built from a subset of 1..9:
\* every element is one that the loop over completedSet added, in its order.
RECURSIVE Spread(_)
Spread(S) ==
  IF S = {} THEN <<>>
  ELSE LET m == CHOOSE x \in S : \A y \in S : x <= y
       IN  <<m>> \o Spread(S \ {m})

-----------------------------------------------------------------------------
(* sudoku-solver.js: the board *)

EmptyBoard == [g \in 0..8 |-> [r \in 0..2 |-> [c \in 0..2 |-> NULL]]]

regionIndex(i) == ((i \div 27) * 3) + JsRem(JsRem(i, 27) \div 3, 3)

regionRowIndex(i) == JsRem(i, 27) \div 9

\* regionRowCellIndex with a division in place of the second remainder
regionRowCellIndexDiv(i) == JsRem(i, 9) \div 3

regionRowCellIndex(i) == JsRem(JsRem(i, 9), 3)

boardRowIndex(i) == i \div 9

boardColumnIndex(i) == JsRem(i, 9)

getBoardRegion(b, row, column) ==
  LET indexNum == (row * 9) + column
      region == b[regionIndex(indexNum)]
  IN  [k \in 1..9 |-> region[(k - 1) \div 3][(k - 1) % 3]]

getBoardRow(b, row) ==
  LET indexNum == row * 9
      indexRow == regionRowIndex(indexNum)
      indexSquare == regionIndex(indexNum)
  IN  [k \in 1..9 |-> b[indexSquare + ((k - 1) \div 3)][indexRow][(k - 1) % 3]]

\* getBoardColumn that reads the row of the same number
getBoardColumnOfRow(b, column) == getBoardRow(b, column)

\* the column of the board, top down
getBoardColumn(b, column) ==
  [k \in 1..9 |->
     LET index == ((k - 1) * 9) + column
     IN  b[regionIndex(index)][regionRowIndex(index)][regionRowCellIndex(index)]]

getCell(b, row, column) ==
  LET index == (row * 9) + column
  IN  b[regionIndex(index)][regionRowIndex(index)][regionRowCellIndex(index)]

\* /[1-9]/.test(v) for a number or null: the decimal form of a positive
\* integer has a digit 1-9; "0", "null" and "NaN" have none.
TestDigit(v) == v > 0

\* setCell with row and column exchanged in the index
setCellTransposed(b, row, column, v) ==
  LET index == (column * 9) + row
  IN  IF TestDigit(v) \/ v = NULL
      THEN [b EXCEPT ![regionIndex(index)][regionRowIndex(index)]
                      [regionRowCellIndex(index)] = IF Truthy(v) THEN v ELSE NULL]
      ELSE b

setCell(b, row, column, v) ==
  LET index == (row * 9) + column
  IN  IF TestDigit(v) \/ v = NULL
      THEN [b EXCEPT ![regionIndex(index)][regionRowIndex(index)]
                      [regionRowCellIndex(index)] = IF Truthy(v) THEN v ELSE NULL]
      ELSE b

\* setCell given a string: /[1-9]/.test(value) is the test of a substring,
\* and !!value ? +value : null converts a string that is not empty
setCellString(b, row, column, str) ==
  LET index == (row * 9) + column
  IN  IF \E k \in 1..Len(str) : IsDigitChar(str[k]) /\ str[k] # "0"
      THEN [b EXCEPT ![regionIndex(index)][regionRowIndex(index)]
                      [regionRowCellIndex(index)] =
                        IF Len(str) > 0 THEN ToNumber(str) ELSE NULL]
      ELSE b

removeCell(b, row, column) ==
  LET index == (row * 9) + column
  IN  [b EXCEPT ![regionIndex(index)][regionRowIndex(index)]
                 [regionRowCellIndex(index)] = NULL]

isValidLength(puzzleString) == Len(puzzleString) = 81

\* /^[.1-9]+$/
isValidCharacters(puzzleString) ==
  /\ Len(puzzleString) >= 1
  /\ \A k \in 1..Len(puzzleString) :
       \/ puzzleString[k] = "."
       \/ IsDigitChar(puzzleString[k]) /\ puzzleString[k] # "0"

isValidPuzzleString(puzzleString) ==
  isValidLength(puzzleString) /\ isValidCharacters(puzzleString)

\* getValidPossibleValues without the call of setCell that restores the value
getValidPossibleValuesNoRestore(b, row, column, removeCurrentValue) ==
  LET cellValue == getCell(b, row, column)
      b1 == IF removeCurrentValue THEN removeCell(b, row, column) ELSE b
      currentSet == (Range(getBoardRegion(b1, row, column))
                       \cup Range(getBoardRow(b1, row))
                       \cup Range(getBoardColumn(b1, column))) \ {NULL}
      possibleValues == symmetricDifference(currentSet, completedSet)
  IN  IF ~removeCurrentValue /\ Truthy(cellValue)
      THEN [values |-> {cellValue}, board |-> b]
      ELSE [values |-> possibleValues, board |-> b1]

\* getValidPossibleValues with the region left out of currentValues
getValidPossibleValuesNoRegion(b, row, column, removeCurrentValue) ==
  LET cellValue == getCell(b, row, column)
      b1 == IF removeCurrentValue THEN removeCell(b, row, column) ELSE b
      currentSet == (Range(getBoardRow(b1, row))
                       \cup Range(getBoardColumn(b1, column))) \ {NULL}
      possibleValues == symmetricDifference(currentSet, completedSet)
  IN  IF ~removeCurrentValue /\ Truthy(cellValue)
      THEN [values |-> {cellValue}, board |-> b]
      ELSE [values |-> possibleValues,
            board |-> setCell(b1, row, column, cellValue)]

\* Each of the three returns [values |-> the set, board |-> the board after
\* the call]: the call clears and writes the cell.
getValidPossibleValues(b, row, column, removeCurrentValue) ==
  LET cellValue == getCell(b, row, column)
      b1 == IF removeCurrentValue THEN removeCell(b, row, column) ELSE b
      currentSet == (Range(getBoardRegion(b1, row, column))
                       \cup Range(getBoardRow(b1, row))
                       \cup Range(getBoardColumn(b1, column))) \ {NULL}
      possibleValues == symmetricDifference(currentSet, completedSet)
  IN  IF ~removeCurrentValue /\ Truthy(cellValue)
      THEN [values |-> {cellValue}, board |-> b]
      ELSE [values |-> possibleValues,
            board |-> setCell(b1, row, column, cellValue)]

\* isValidColumnPlacement that looks at the row
isValidColumnPlacementByRow(b, row, column, v) ==
  IF Truthy(getCell(b, row, column)) THEN FALSE
  ELSE isValidValue(getBoardRow(b, row), v)

\* isValidRowPlacement without the test of the cell at (row, column)
isValidRowPlacementAnyCell(b, row, column, v) ==
  isValidValue(getBoardRow(b, row), v)

isValidRowPlacement(b, row, column, v) ==
  IF Truthy(getCell(b, row, column)) THEN FALSE
  ELSE isValidValue(getBoardRow(b, row), v)

isValidColumnPlacement(b, row, column, v) ==
  IF Truthy(getCell(b, row, column)) THEN FALSE
  ELSE isValidValue(getBoardColumn(b, column), v)

isValidRegionPlacement(b, row, column, v) ==
  IF Truthy(getCell(b, row, column)) THEN FALSE
  ELSE isValidValue(getBoardRegion(b, row, column), v)

\* the iteration of isValidBoard with the cell's value left in place
isValidBoardStepKeepValue(b, i) ==
  LET row == boardRowIndex(i)
      column == boardColumnIndex(i)
      cellValue == getCell(b, row, column)
      validValues == getValidPossibleValues(b, row, column, FALSE)
  IN  [ok |-> ~(Truthy(cellValue) /\ cellValue \notin validValues.values),
       board |-> validValues.board]

\* one iteration of the loop of isValidBoard, for cell i: [ok, board after it]
isValidBoardStep(b, i) ==
  LET row == boardRowIndex(i)
      column == boardColumnIndex(i)
      cellValue == getCell(b, row, column)
      validValues == getValidPossibleValues(b, row, column, TRUE)
  IN  [ok |-> ~(Truthy(cellValue) /\ cellValue \notin validValues.values),
       board |-> validValues.board]

\* the iterations of the loop of isValidBoard for cells lo .. hi - 1, stopping
\* at the first that returns false: [ok, board after them]
RECURSIVE isValidBoardRange(_, _, _)
isValidBoardRange(b, lo, hi) ==
  IF hi - lo = 1 THEN isValidBoardStep(b, lo)
  ELSE LET mid == (lo + hi) \div 2
       IN  The({IF first.ok THEN isValidBoardRange(first.board, mid, hi)
                ELSE first : first \in {isValidBoardRange(b, lo, mid)}})

isValidBoard(b) == isValidBoardRange(b, 0, 81)

\* getBoard().flat(2) as a set
FlatBoard(b) == {b[g][r][c] : g \in 0..8, r \in 0..2, c \in 0..2}

\* isBoardSolved without the test of diff.size
isBoardSolvedNoDiff(b) == isValidBoard(b)

\* isBoardSolved that answers false for every board
isBoardSolvedNever(b) == [ok |-> FALSE, board |-> isValidBoard(b).board]

isBoardSolved(b) ==
  LET diff == symmetricDifference(FlatBoard(b), completedSet)
      v == isValidBoard(b)
  IN  [ok |-> v.ok /\ Cardinality(diff) = 0, board |-> v.board]

\* For each slot of the nested array, numbered (g * 9) + (r * 3) + c + 1, the
\* last index of 0..80 that regionIndex, regionRowIndex and regionRowCellIndex
\* send to it, or NULL if no index addresses the slot.
LastIndexAt ==
  SubSeq([k \in 1..81 |->
            LET g == (k - 1) \div 9
                r == ((k - 1) % 9) \div 3
                c == (k - 1) % 3
                Hits(i) == /\ regionIndex(i) = g
                           /\ regionRowIndex(i) = r
                           /\ regionRowCellIndex(i) = c
            IN  IF \E i \in 0..80 : Hits(i)
                THEN CHOOSE i \in 0..80 :
                       Hits(i) /\ \A j \in (i + 1)..80 : ~Hits(j)
                ELSE NULL], 1, 81)

\* setBoardFromString that writes the digits and leaves a slot alone for '.'
setBoardFromStringDigitsOnly(b, puzzleString) ==
  IF isValidPuzzleString(puzzleString)
  THEN [g \in 0..8 |-> [r \in 0..2 |-> [c \in 0..2 |->
          LET i == LastIndexAt[(g * 9) + (r * 3) + c + 1]
          IN  IF i = NULL THEN b[g][r][c]
              ELSE LET d == puzzleString[i + 1]
                   IN  IF d # "." THEN ToNumber(<<d>>) ELSE b[g][r][c]]]]
  ELSE b

\* puzzleString.split('').forEach((d, i) => ...) on a valid string, which has
\* 81 characters: each slot holds what the last callback that addressed it
\* wrote, and keeps its value if none did
setBoardFromString(b, puzzleString) ==
  IF isValidPuzzleString(puzzleString)
  THEN [g \in 0..8 |-> [r \in 0..2 |-> [c \in 0..2 |->
          LET i == LastIndexAt[(g * 9) + (r * 3) + c + 1]
          IN  IF i = NULL THEN b[g][r][c]
              ELSE LET d == puzzleString[i + 1]
                   IN  IF d # "." THEN ToNumber(<<d>>) ELSE NULL]]]
  ELSE b

\* String(n) of a number n >= 0
RECURSIVE NumberToString(_)
NumberToString(n) ==
  IF n < 10 THEN <<NumberToChar(n)>>
  ELSE NumberToString(n \div 10) \o <<NumberToChar(n % 10)>>

\* result.join('') of the elements lo..hi-1 of result: numbers and '.'
RECURSIVE JoinRange(_, _, _)
JoinRange(result, lo, hi) ==
  IF hi - lo = 1
  THEN IF result[lo + 1] = NULL THEN <<".">> ELSE NumberToString(result[lo + 1])
  ELSE LET mid == (lo + hi) \div 2
       IN  JoinRange(result, lo, mid) \o JoinRange(result, mid, hi)

\* result holds NULL where the code pushes '.'
getStringFromBoard(b) ==
  LET result ==
        SubSeq([k \in 1..81 |->
                  LET index == k - 1
                      v == b[regionIndex(index)][regionRowIndex(index)]
                            [regionRowCellIndex(index)]
                  IN  IF Truthy(v) THEN v ELSE NULL], 1, 81)
  IN  IF \A k \in 1..81 : result[k] < 10
      THEN SubSeq([k \in 1..81 |->
                     IF result[k] = NULL THEN "."
                     ELSE NumberToChar(result[k])], 1, 81)
      ELSE JoinRange(result, 0, 81)

-----------------------------------------------------------------------------
(* sudoku-solver.js: solve() *)

InvalidBoardMsg == <<"i","n","v","a","l","i","d"," ","b","o","a","r","d">>

UnsolvableMsg ==
  <<"U","n","s","o","l","v","a","b","l","e"," ","p","u","z","z","l","e"," ",
    "l","a","y","o","u","t">>

TimeoutMsg ==
  <<"t","i","m","e","o","u","t"," ","a","t","t","e","m","p","t","i","n","g"," ",
    "t","o"," ","s","o","l","v","e">>

\* The ceiling of the attempt count.  The source's ceiling is 5000; the model
\* runs the same loop under a small ceiling so that the searches that reach it
\* can be enumerated.
AttemptCeiling == 6

\* the iteration of the scan without the filter of the cells found before
ScanStepNoFilter(st, index) ==
  LET row == boardRowIndex(index)
      column == boardColumnIndex(index)
      cellValue == getCell(st.board, row, column)
      currentValidValues == getValidPossibleValues(st.board, row, column, FALSE)
      size == Cardinality(currentValidValues.values)
  IN  IF Truthy(cellValue) THEN st
      ELSE IF size <= st.numberOfValidValues
      THEN [cells |-> Append(st.cells,
                             [row |-> row, column |-> column,
                              values |-> Spread(currentValidValues.values)]),
            numberOfValidValues |-> size,
            board |-> currentValidValues.board]
      ELSE [st EXCEPT !.board = currentValidValues.board]

\* the iteration of the scan without the continue at an occupied cell
ScanStepNoContinue(st, index) ==
  LET row == boardRowIndex(index)
      column == boardColumnIndex(index)
      currentValidValues == getValidPossibleValues(st.board, row, column, FALSE)
      size == Cardinality(currentValidValues.values)
  IN  IF size <= st.numberOfValidValues
      THEN [cells |-> Append(SelectSeq(st.cells, LAMBDA e : Len(e.values) = size),
                             [row |-> row, column |-> column,
                              values |-> Spread(currentValidValues.values)]),
            numberOfValidValues |-> size,
            board |-> currentValidValues.board]
      ELSE [st EXCEPT !.board = currentValidValues.board]

\* One iteration of the scan of lines 258-278, for cell index; st holds the
\* loop's cells and numberOfValidValues and the board.
ScanStep(st, index) ==
  LET row == boardRowIndex(index)
      column == boardColumnIndex(index)
      cellValue == getCell(st.board, row, column)
      currentValidValues == getValidPossibleValues(st.board, row, column, FALSE)
      size == Cardinality(currentValidValues.values)
  IN  IF Truthy(cellValue) THEN st
      ELSE IF size <= st.numberOfValidValues
      THEN [cells |-> Append(SelectSeq(st.cells, LAMBDA e : Len(e.values) = size),
                             [row |-> row, column |-> column,
                              values |-> Spread(currentValidValues.values)]),
            numberOfValidValues |-> size,
            board |-> currentValidValues.board]
      ELSE [st EXCEPT !.board = currentValidValues.board]

\* the iterations of the scan for cells lo .. hi - 1
RECURSIVE ScanRange(_, _, _)
ScanRange(st, lo, hi) ==
  IF hi - lo = 1 THEN ScanStep(st, lo)
  ELSE LET mid == (lo + hi) \div 2
       IN  The({ScanRange(first, mid, hi) : first \in {ScanRange(st, lo, mid)}})

ScanCells(b) ==
  ScanRange([cells |-> <<>>, numberOfValidValues |-> 9, board |-> b], 0, 81)

\* the loop of pops without its break: it ends at the bottom frame
PopAttemptsNoBreak(stack) == [cell |-> stack[1], stack |-> <<>>]

\* while (attemptStack.length > 0) { cell = attemptStack.pop(); if (...) break; }
RECURSIVE PopAttempts(_)
PopAttempts(stack) ==
  LET top == stack[Len(stack)]
      rest == SubSeq(stack, 1, Len(stack) - 1)
  IN  IF Len(top.values) > 0 \/ Len(rest) = 0
      THEN [cell |-> top, stack |-> rest]
      ELSE PopAttempts(rest)

\* splice that removes nothing
SpliceNothing(values, valueIndex) == values

\* values.splice(valueIndex, 1), valueIndex counted from 0
Splice(values, valueIndex) ==
  SubSeq(values, 1, valueIndex) \o SubSeq(values, valueIndex + 2, Len(values))

-----------------------------------------------------------------------------
(* routes/api.js *)

NoString == <<>>

NoResponse == [pending |-> TRUE]

NoSolve == [puzzle |-> NoString, solution |-> NoString]

Letters == {"A", "B", "C", "D", "E", "F", "G", "H", "I"}

IsDigit19(ch) == IsDigitChar(ch) /\ ch # "0"

\* /[A-I][1-9]/.test(c)
TestCoordinate(c) ==
  \E k \in 1..(Len(c) - 1) : c[k] \in Letters /\ IsDigit19(c[k + 1])

\* /[1-9]/.test(v)
TestValue(v) == \E k \in 1..Len(v) : IsDigit19(v[k])

\* /timeout|invalid|Unsolvable/.test(s)
solutionErrorRegEx(s) ==
  \/ Contains(s, <<"t","i","m","e","o","u","t">>)
  \/ Contains(s, <<"i","n","v","a","l","i","d">>)
  \/ Contains(s, <<"U","n","s","o","l","v","a","b","l","e">>)

Reverse(s) == [k \in 1..Len(s) |-> s[Len(s) + 1 - k]]

\* the first two elements of the array convertCoordinate returns
convertCoordinate(c) ==
  LET result == Reverse(c)
  IN  <<Minus(ToNumber(<<result[1]>>), 1),
        codePointAt(result[2]) - codePointAt("A")>>

\* getPuzzleStringError with the test of the characters before that of the length
getPuzzleStringErrorCharactersFirst(puzzleString) ==
  IF ~isValidPuzzleString(puzzleString)
  THEN IF ~isValidCharacters(puzzleString)
       THEN [error |-> "Invalid characters in puzzle"]
       ELSE IF ~isValidLength(puzzleString)
       THEN [error |-> "Expected puzzle to be 81 characters long"]
       ELSE [error |-> "Unknown error, this is a bug"]
  ELSE [error |->
          "Valid puzzle passed to getPuzzleStringError function, this is a bug"]

getPuzzleStringError(puzzleString) ==
  IF ~isValidPuzzleString(puzzleString)
  THEN IF ~isValidLength(puzzleString)
       THEN [error |-> "Expected puzzle to be 81 characters long"]
       ELSE IF ~isValidCharacters(puzzleString)
       THEN [error |-> "Invalid characters in puzzle"]
       ELSE [error |-> "Unknown error, this is a bug"]
  ELSE [error |->
          "Valid puzzle passed to getPuzzleStringError function, this is a bug"]

\* what the /api/solve handler answers for the string solve() returned
SolveResponse(s) ==
  IF solutionErrorRegEx(s) THEN [error |-> "Puzzle cannot be solved"]
  ELSE [solution |-> s]

\* reading sudokuBoard[..][..][..] at (row, column) throws a TypeError
getCellThrows(row, column) ==
  LET index == CellIndex(row, column)
  IN  \/ index = NaN
      \/ regionIndex(index) \notin 0..8
      \/ regionRowIndex(index) \notin 0..2

getBoardColumnThrows(column) ==
  \E k \in 0..8 : getCellThrows(k, column)

getBoardRowThrows(row) ==
  \/ row = NaN
  \/ \E offset \in 0..2 : regionIndex(row * 9) + offset \notin 0..8

\* one of the three placement predicates throws at (row, column)
PlacementThrows(b, row, column) ==
  \/ getCellThrows(row, column)
  \/ /\ ~Truthy(getCell(b, row, column))
     /\ getBoardColumnThrows(column) \/ getBoardRowThrows(row)

\* lines 56-74: the answer of the /api/check handler on board b
CheckAnswer(b, row, column, v) ==
  LET region == IF ~isValidRegionPlacement(b, row, column, v)
                THEN <<"region">> ELSE <<>>
      col == IF ~isValidColumnPlacement(b, row, column, v)
             THEN <<"column">> ELSE <<>>
      rw == IF ~isValidRowPlacement(b, row, column, v)
            THEN <<"row">> ELSE <<>>
      conflicts == region \o col \o rw
  IN  IF Len(conflicts) = 0 THEN [valid |-> TRUE]
      ELSE [valid |-> FALSE, conflicts |-> conflicts]


\* lines 44-75: what the /api/check handler answers for the body fields p, c
\* and v when the solver's board is b before the request
CheckResponse(b, p, c, v) ==
  IF p = NoString \/ c = NoString \/ v = NoString
  THEN [error |-> "Required field(s) missing"]
  ELSE IF ~TestCoordinate(c) THEN [error |-> "Invalid coordinate"]
  ELSE IF ~TestValue(v) THEN [error |-> "Invalid value"]
  ELSE IF ~isValidPuzzleString(p) THEN getPuzzleStringError(p)
  ELSE LET set == setBoardFromString(b, p)
           rc == convertCoordinate(c)
       IN  IF PlacementThrows(set, rc[1], rc[2]) THEN [threw |-> "TypeError"]
           ELSE CheckAnswer(set, rc[1], rc[2], ToNumber(v))

-----------------------------------------------------------------------------
(* The requests the model sends *)

\* tests/2_functional-tests.js: the solution the tests expect
SolvedPuzzle ==
  <<"7","6","9","2","3","5","4","1","8",
    "8","5","1","4","9","6","3","7","2",
    "4","3","2","1","7","8","9","5","6",
    "1","7","4","5","6","9","2","8","3",
    "3","9","5","8","4","2","7","6","1",
    "6","2","8","7","1","3","5","4","9",
    "2","8","3","6","5","7","1","9","4",
    "5","1","6","9","2","4","8","3","7",
    "9","4","7","3","8","1","6","2","5">>

\* tests/2_functional-tests.js: the puzzle of the tests
TestPuzzle ==
  <<".",".","9",".",".","5",".","1",".",
    "8","5",".","4",".",".",".",".","2",
    "4","3","2",".",".",".",".",".",".",
    "1",".",".",".","6","9",".","8","3",
    ".","9",".",".",".",".",".","6",".",
    "6","2",".","7","1",".",".",".","9",
    ".",".",".",".",".",".","1","9","4",
    "5",".",".",".",".","4",".","3","7",
    ".","4",".","3",".",".","6",".",".">>

\* tests/2_functional-tests.js: 'Puzzle Cannot be Solved', 7 twice in row A
RepeatedDigitPuzzle ==
  <<"7","7","9","2","3","5","4","1","8",
    "8","5","1","4","9","6","3","7","2",
    "4","3","2","1","7","8","9","5","6",
    "1","7","4","5","6","9","2","8","3",
    "3","9","5","8","4","2","7","6","1",
    "6","2","8","7","1","3","5","4","9",
    "2","8","3","6","5","7","1","9","4",
    "5","1","6","9","2","4","8","3","7",
    "9","4","7","3","8","1","6","2","5">>

\* s with the characters at the 0-based indices in idx replaced by '.'
Blank(s, idx) ==
  SubSeq([k \in 1..Len(s) |-> IF (k - 1) \in idx THEN "." ELSE s[k]], 1, Len(s))

\* the 81-character string that holds chars[<<row, column>>] where given
Sparse(chars) ==
  SubSeq([k \in 1..81 |->
            LET rc == <<(k - 1) \div 9, (k - 1) % 9>>
            IN  IF rc \in DOMAIN chars THEN chars[rc] ELSE "."], 1, 81)

RowA(s) == [rc \in {<<0, k - 1>> : k \in 1..Len(s)} |-> s[rc[2] + 1]]

\* one solution, three empty cells
ThreeLeft == Blank(SolvedPuzzle, {78, 79, 80})

\* two solutions: 1 and 7 can be exchanged in a rectangle of four cells
TwoSolutions == Blank(SolvedPuzzle, {21, 22, 48, 49})

\* two solutions, six empty cells
SixLeft == Blank(SolvedPuzzle, {1, 10, 13, 14, 31, 32})

\* two solutions, seven empty cells
SevenLeft == Blank(SolvedPuzzle, {1, 2, 5, 10, 14, 72, 74})

\* no repeated digit, no completion: A8 and A9 can both hold 8 only
TwoForOne ==
  Sparse(RowA(<<"1","2","3","4","5","6","7">>) @@ (<<1, 6>> :> "9"))

\* column 0 of a string, from row 1 down
ColumnA(s) == [rc \in {<<k, 0>> : k \in 1..Len(s)} |-> s[rc[1]]]

\* no repeated digit, no completion: the last three cells of row 0 can hold 8
\* or 9 only; the last cell of column 0 can hold 9 only, so that the search
\* fills it first, then chooses, then reaches a dead end with a choice left
DeadEndPuzzle ==
  Sparse(RowA(<<"1","2","3","4","5","6">>) @@ (<<1, 6>> :> "7")
           @@ ColumnA(<<"4","5","2","3","6","7","8">>))

\* the same digit twice in one column, and twice in one region
RepeatedInColumn == Sparse((<<0, 0>> :> "1") @@ (<<5, 0>> :> "1"))

RepeatedInRegion == Sparse((<<0, 0>> :> "1") @@ (<<1, 1>> :> "1"))

\* 80 characters, one of them invalid
ShortPuzzle == SubSeq([TestPuzzle EXCEPT ![3] = "x"], 1, 80)

\* 81 characters, one of them invalid
InvalidCharPuzzle == [TestPuzzle EXCEPT ![3] = "x"]

\* 82 valid characters
LongPuzzle == TestPuzzle \o <<".">>


SolvePuzzles ==
  {SolvedPuzzle, ThreeLeft, TwoSolutions, SixLeft, SevenLeft, TwoForOne,
   DeadEndPuzzle, RepeatedDigitPuzzle, RepeatedInColumn, RepeatedInRegion}

CheckPuzzles == {TestPuzzle}

MalformedPuzzles == {NoString, ShortPuzzle, InvalidCharPuzzle, LongPuzzle}

Coordinates == {<<"A", "1">>, <<"A", "2">>, <<"B", "1">>, <<"B", "2">>}

MalformedCoordinates ==
  {NoString, <<"K", "1">>, <<"A", "1", "1">>, <<"A", "A", "1">>}

Values == {<<"1">>, <<"5">>, <<"7">>}

MalformedValues == {NoString, <<"0">>, <<"1", "0">>, <<"a", "1">>}

\* how many fields of one /api/check request may be malformed
MaxMalformed == 1

\* how many requests the server receives in one run
MaxRequests == 2

Malformed(p, c, v) ==
  (IF p \in MalformedPuzzles THEN 1 ELSE 0)
    + (IF c \in MalformedCoordinates THEN 1 ELSE 0)
    + (IF v \in MalformedValues THEN 1 ELSE 0)

-----------------------------------------------------------------------------
(* The state machine *)

Init ==
  /\ sudokuBoard = EmptyBoard
  /\ deterministic = FALSE
  /\ pc = "idle"
  /\ puzzle = NoString
  /\ coordinate = NoString
  /\ value = NoString
  /\ attemptStack = <<>>
  /\ attemptCount = 0
  /\ solution = NoString
  /\ response = NoResponse
  /\ called = <<>>
  /\ placement = <<>>
  /\ lastSolve = NoSolve
  /\ requests = 0
  /\ route = "none"

\* solve() returns s to the /api/solve handler, which answers
Return(s) ==
  /\ solution' = s
  /\ attemptStack' = <<>>
  /\ response' = SolveResponse(s)
  /\ pc' = "idle"

\* POST /api/solve with puzzle p, up to the first test of the while loop
SolveRequest(p, record) ==
  /\ pc = "idle"
  /\ requests < MaxRequests
  /\ requests' = requests + 1
  /\ route' = "/api/solve"
  /\ lastSolve' = IF record THEN [puzzle |-> puzzle, solution |-> solution]
                  ELSE lastSolve
  /\ puzzle' = p
  /\ coordinate' = NoString
  /\ value' = NoString
  /\ placement' = <<>>
  /\ attemptCount' = 0
  /\ UNCHANGED deterministic
  /\ IF p = NoString
     THEN /\ response' = [error |-> "Required field missing"]
          /\ called' = <<>>
          /\ solution' = NoString
          /\ UNCHANGED <<sudokuBoard, pc, attemptStack>>
     ELSE IF ~isValidPuzzleString(p)
     THEN /\ response' = getPuzzleStringError(p)
          /\ called' = <<"isValidPuzzleString">>
          /\ solution' = NoString
          /\ UNCHANGED <<sudokuBoard, pc, attemptStack>>
     ELSE \E v \in {isValidBoard(setBoardFromString(sudokuBoard, p))} :
              /\ called' = <<"isValidPuzzleString", "setBoardFromString", "solve">>
              /\ sudokuBoard' = v.board
              /\ IF ~v.ok
                 THEN Return(InvalidBoardMsg)
                 ELSE /\ pc' = "loop"
                      /\ solution' = NoString
                      /\ response' = NoResponse
                      /\ UNCHANGED attemptStack

\* the while loop finds the board solved: solve() returns the board's string
SolveReturn ==
  /\ pc = "loop"
  /\ \E s \in {isBoardSolved(sudokuBoard)} :
         /\ s.ok
         /\ sudokuBoard' = s.board
         /\ Return(getStringFromBoard(s.board))
  /\ UNCHANGED <<deterministic, puzzle, coordinate, value, attemptCount,
                 called, placement, requests, route, lastSolve>>

\* one iteration of the while loop, lines 253-322
SolveIteration ==
  /\ pc = "loop"
  /\ \E s \in {isBoardSolved(sudokuBoard)} :
     \E scan \in {ScanCells(s.board)} :
     LET cells == scan.cells
     IN  /\ ~s.ok
         /\ attemptCount' = attemptCount + 1
         /\ IF Len(cells) = 0
            THEN \* cell is undefined: cell.values throws
                 /\ sudokuBoard' = scan.board
                 /\ response' = [threw |-> "TypeError"]
                 /\ pc' = "idle"
                 /\ attemptStack' = <<>>
                 /\ UNCHANGED solution
            ELSE \E cellIndex \in
                      IF deterministic THEN {Len(cells)} ELSE 1..Len(cells) :
                   LET picked == cells[cellIndex]
                       backtrack == Len(picked.values) = 0 /\ Len(attemptStack) > 0
                       popped == IF backtrack THEN PopAttempts(attemptStack)
                                 ELSE [cell |-> picked, stack |-> attemptStack]
                       cell == popped.cell
                       b1 == IF backtrack
                             THEN setBoardFromString(scan.board, cell.string)
                             ELSE scan.board
                   IN  IF Len(cell.values) = 0 /\ Len(popped.stack) = 0
                       THEN /\ sudokuBoard' = b1
                            /\ Return(UnsolvableMsg)
                       ELSE \E valueIndex \in
                                 IF deterministic THEN {Len(cell.values) - 1}
                                 ELSE 0..(Len(cell.values) - 1) :
                              LET setValue == cell.values[valueIndex + 1]
                                  b2 == setCell(b1, cell.row, cell.column, setValue)
                                  frame == [row |-> cell.row,
                                            column |-> cell.column,
                                            values |-> Splice(cell.values, valueIndex),
                                            setValue |-> setValue,
                                            string |-> getStringFromBoard(b2)]
                              IN  /\ sudokuBoard' = b2
                                  /\ IF attemptCount' = AttemptCeiling
                                     THEN Return(TimeoutMsg)
                                     ELSE /\ attemptStack' =
                                               Append(popped.stack, frame)
                                          /\ UNCHANGED <<pc, solution, response>>
  /\ UNCHANGED <<deterministic, puzzle, coordinate, value, called, placement,
                 requests, route, lastSolve>>

\* POST /api/check
CheckRequest(p, c, v) ==
  /\ pc = "idle"
  /\ requests < MaxRequests
  /\ requests' = requests + 1
  /\ route' = "/api/check"
  /\ puzzle' = p
  /\ coordinate' = c
  /\ value' = v
  /\ attemptCount' = 0
  /\ solution' = NoString
  /\ UNCHANGED <<deterministic, pc, lastSolve, attemptStack>>
  /\ IF p = NoString \/ c = NoString \/ v = NoString
     THEN /\ response' = [error |-> "Required field(s) missing"]
          /\ called' = <<>>
          /\ placement' = <<>>
          /\ UNCHANGED sudokuBoard
     ELSE IF ~TestCoordinate(c)
     THEN /\ response' = [error |-> "Invalid coordinate"]
          /\ called' = <<>>
          /\ placement' = <<>>
          /\ UNCHANGED sudokuBoard
     ELSE IF ~TestValue(v)
     THEN /\ response' = [error |-> "Invalid value"]
          /\ called' = <<>>
          /\ placement' = <<>>
          /\ UNCHANGED sudokuBoard
     ELSE IF ~isValidPuzzleString(p)
     THEN /\ response' = getPuzzleStringError(p)
          /\ called' = <<"isValidPuzzleString">>
          /\ placement' = <<>>
          /\ UNCHANGED sudokuBoard
     ELSE LET b == setBoardFromString(sudokuBoard, p)
              rc == convertCoordinate(c)
              row == rc[1]
              column == rc[2]
              n == ToNumber(v)
          IN  /\ sudokuBoard' = b
              /\ placement' = <<row, column, n>>
              /\ IF PlacementThrows(b, row, column)
                 THEN /\ response' = [threw |-> "TypeError"]
                      /\ called' = <<"isValidPuzzleString", "setBoardFromString",
                                     "isValidRegionPlacement">>
                 ELSE /\ response' = CheckAnswer(b, row, column, n)
                      /\ called' = <<"isValidPuzzleString", "setBoardFromString",
                                     "isValidRegionPlacement",
                                     "isValidColumnPlacement",
                                     "isValidRowPlacement">>

Next ==
  \/ \E p \in SolvePuzzles \cup MalformedPuzzles : SolveRequest(p, FALSE)
  \/ SolveIteration
  \/ SolveReturn
  \/ \E p \in CheckPuzzles \cup MalformedPuzzles,
        c \in Coordinates \cup MalformedCoordinates,
        v \in Values \cup MalformedValues :
       Malformed(p, c, v) <= MaxMalformed /\ CheckRequest(p, c, v)

Spec == Init /\ [][Next]_vars

\* the puzzles that are posted twice: two solutions, one solution
RepeatPuzzles == {TwoSolutions, SixLeft, ThreeLeft}

\* POST /api/solve only, each request recording the one before it
NextRepeat ==
  \/ \E p \in RepeatPuzzles : SolveRequest(p, TRUE)
  \/ SolveIteration
  \/ SolveReturn

SpecRepeat == Init /\ [][NextRepeat]_vars

-----------------------------------------------------------------------------
(* The SudokuSolver class used on its own: an instance is constructed and  *)
(* its methods are called one after the other.  sudokuBoard is the         *)
(* instance's board, called the method of the last call, placement its     *)
(* arguments, response what it returned, puzzle the last string given to   *)
(* the constructor or to setBoardFromString, requests the number of calls. *)

\* the same digit twice in one row, in different regions
RepeatedInRow == Sparse((<<0, 0>> :> "1") @@ (<<0, 5>> :> "1"))

\* the strings given to the constructor and to setBoardFromString
CorePuzzles ==
  {TestPuzzle, SolvedPuzzle, RepeatedDigitPuzzle, RepeatedInRow,
   RepeatedInColumn, RepeatedInRegion}

\* the (row, column) pairs of the calls; in TestPuzzle the first two cells are
\* empty and the last two hold 8 and 5
CoreCells == {<<0, 0>>, <<0, 1>>, <<1, 0>>, <<1, 1>>}

\* the values given to setCell: null and numbers, and strings
CoreNumbers == {NULL, 5, 0, 10}

CoreStrings == {<<"7">>, <<"1", "a">>}

\* the values given to the placement predicates
CoreValues == {1, 5, 7}

\* how many methods are called on one instance
MaxCalls == 2

\* new SudokuSolver(puzzleString)
InitCore ==
  /\ \E p \in CorePuzzles \cup {NoString, ShortPuzzle} :
       /\ puzzle = p
       /\ sudokuBoard = IF p # NoString THEN setBoardFromString(EmptyBoard, p)
                        ELSE EmptyBoard
  /\ deterministic = FALSE
  /\ pc = "idle"
  /\ coordinate = NoString
  /\ value = NoString
  /\ attemptStack = <<>>
  /\ attemptCount = 0
  /\ solution = NoString
  /\ response = NoResponse
  /\ called = <<>>
  /\ placement = <<>>
  /\ lastSolve = NoSolve
  /\ requests = 0
  /\ route = "none"

\* a call of method name with args that returns returned and leaves board
Call(name, args, returned, board) ==
  /\ requests < MaxCalls
  /\ requests' = requests + 1
  /\ called' = <<name>>
  /\ placement' = args
  /\ response' = [returned |-> returned]
  /\ sudokuBoard' = board
  /\ UNCHANGED <<deterministic, pc, coordinate, value, attemptStack,
                 attemptCount, solution, lastSolve, route>>

CallSetBoardFromString(str) ==
  /\ Call("setBoardFromString", <<>>, "undefined",
          setBoardFromString(sudokuBoard, str))
  /\ puzzle' = str

CallGetStringFromBoard ==
  /\ Call("getStringFromBoard", <<>>, getStringFromBoard(sudokuBoard),
          sudokuBoard)
  /\ UNCHANGED puzzle

\* setCell returns this.getCell(row, column)
CallSetCell(row, column, v) ==
  /\ \E b \in {setCell(sudokuBoard, row, column, v)} :
       Call("setCell", <<row, column, v>>, getCell(b, row, column), b)
  /\ UNCHANGED puzzle

CallSetCellString(row, column, str) ==
  /\ \E b \in {setCellString(sudokuBoard, row, column, str)} :
       Call("setCell", <<row, column, str>>, getCell(b, row, column), b)
  /\ UNCHANGED puzzle

CallRemoveCell(row, column) ==
  /\ Call("removeCell", <<row, column>>, "undefined",
          removeCell(sudokuBoard, row, column))
  /\ UNCHANGED puzzle

CallIsValidBoard ==
  /\ \E v \in {isValidBoard(sudokuBoard)} :
       Call("isValidBoard", <<>>, v.ok, v.board)
  /\ UNCHANGED puzzle

CallGetValidPossibleValues(row, column) ==
  /\ \E v \in {getValidPossibleValues(sudokuBoard, row, column, FALSE)} :
       Call("getValidPossibleValues", <<row, column>>, v.values, v.board)
  /\ UNCHANGED puzzle

CallIsValidRowPlacement(row, column, v) ==
  /\ Call("isValidRowPlacement", <<row, column, v>>,
          isValidRowPlacement(sudokuBoard, row, column, v), sudokuBoard)
  /\ UNCHANGED puzzle

CallIsValidColumnPlacement(row, column, v) ==
  /\ Call("isValidColumnPlacement", <<row, column, v>>,
          isValidColumnPlacement(sudokuBoard, row, column, v), sudokuBoard)
  /\ UNCHANGED puzzle

CallIsValidRegionPlacement(row, column, v) ==
  /\ Call("isValidRegionPlacement", <<row, column, v>>,
          isValidRegionPlacement(sudokuBoard, row, column, v), sudokuBoard)
  /\ UNCHANGED puzzle

NextCore ==
  \/ \E str \in CorePuzzles \cup {InvalidCharPuzzle} :
       CallSetBoardFromString(str)
  \/ CallGetStringFromBoard
  \/ \E rc \in CoreCells, v \in CoreNumbers : CallSetCell(rc[1], rc[2], v)
  \/ \E rc \in CoreCells, str \in CoreStrings :
       CallSetCellString(rc[1], rc[2], str)
  \/ \E rc \in CoreCells : CallRemoveCell(rc[1], rc[2])
  \/ CallIsValidBoard
  \/ \E rc \in CoreCells : CallGetValidPossibleValues(rc[1], rc[2])
  \/ \E rc \in CoreCells, v \in CoreValues :
       \/ CallIsValidRowPlacement(rc[1], rc[2], v)
       \/ CallIsValidColumnPlacement(rc[1], rc[2], v)
       \/ CallIsValidRegionPlacement(rc[1], rc[2], v)

SpecCore == InitCore /\ [][NextCore]_vars

-----------------------------------------------------------------------------
(* The Sudoku constraints, stated on 81-character strings.  The properties  *)
(* below judge the solver's results by these definitions and not by the     *)
(* solver's own predicates.                                                 *)

Digits19 == {"1", "2", "3", "4", "5", "6", "7", "8", "9"}

RowOf(i) == i \div 9

ColumnOf(i) == i % 9

BoxOf(i) == ((i \div 27) * 3) + ((i % 9) \div 3)

SameGroup(i, j) ==
  RowOf(i) = RowOf(j) \/ ColumnOf(i) = ColumnOf(j) \/ BoxOf(i) = BoxOf(j)

\* the characters of s in the cells i of 0..80 with Group(i) = g
GroupChars(s, Group(_), g) == {s[i + 1] : i \in {j \in 0..80 : Group(j) = g}}

IsSolvedString(s) ==
  /\ Len(s) = 81
  /\ \A k \in 1..81 : s[k] \in Digits19
  /\ \A g \in 0..8 : /\ GroupChars(s, RowOf, g) = Digits19
                     /\ GroupChars(s, ColumnOf, g) = Digits19
                     /\ GroupChars(s, BoxOf, g) = Digits19

\* a digit occurs twice in one row, column or region of s
HasRepeat(s) ==
  \E i \in 0..80 : /\ s[i + 1] # "."
                   /\ \E j \in (i + 1)..80 : SameGroup(i, j) /\ s[j + 1] = s[i + 1]

\* the digits that occur in no cell of the row, column and region of cell i
Candidates(s, i) ==
  Digits19 \ {s[j + 1] : j \in {k \in 0..80 : k # i /\ SameGroup(i, k)}}

\* s can be completed: its empty cells can be filled with no digit repeated
RECURSIVE HasCompletion(_)
HasCompletion(s) ==
  LET blanks == {i \in 0..80 : s[i + 1] = "."}
      count == {<<i, Cardinality(Candidates(s, i))>> : i \in blanks}
      fewest == CHOOSE ic \in count : \A jc \in count : ic[2] <= jc[2]
  IN  IF HasRepeat(s) THEN FALSE
      ELSE IF blanks = {} THEN TRUE
      ELSE \E d \in Candidates(s, fewest[1]) :
             HasCompletion([s EXCEPT ![fewest[1] + 1] = d])

\* the handler of the last request called solve()
SolveCalled == called = <<"isValidPuzzleString", "setBoardFromString", "solve">>

\* solve() has returned
SolveReturned == SolveCalled /\ pc = "idle" /\ solution # NoString

FailureMsgs == {InvalidBoardMsg, UnsolvableMsg, TimeoutMsg}

-----------------------------------------------------------------------------
(* Properties *)

\* C1: whenever solve() returns something other than 'invalid board',
\* 'Unsolvable puzzle layout' or 'timeout attempting to solve', the returned
\* string has 81 digits 1-9 and no '.', every row, column and region of it is
\* exactly {1..9}, and isValidBoard() on the re-parsed string is true.
C1_SolutionIsSolved ==
  (SolveReturned /\ solution \notin FailureMsgs) =>
    /\ IsSolvedString(solution)
    /\ isValidBoard(setBoardFromString(EmptyBoard, solution)).ok

\* solve() has returned a solution of a puzzle that it had to search
C1_Witness ==
  /\ SolveReturned
  /\ solution \notin FailureMsgs
  /\ puzzle = TwoSolutions
  /\ attemptCount = 4

\* C2: solve() returns 'Unsolvable puzzle layout' only when the initial board
\* has no completion, and only at a dead end (an empty cell with no candidate)
\* at which no frame of the attempt stack has an untried value left; so for
\* an initial board that has a completion it never returns it.
C2_UnsolvableOnlyWhenExhausted ==
  [][(pc = "loop" /\ solution' = UnsolvableMsg) =>
       LET board == getStringFromBoard(sudokuBoard)
       IN  /\ ~HasCompletion(puzzle)
           /\ \E i \in 0..80 : board[i + 1] = "." /\ Candidates(board, i) = {}
           /\ \A k \in 1..Len(attemptStack) : Len(attemptStack[k].values) = 0]_vars

\* solve() has returned 'Unsolvable puzzle layout' after it went back to a
\* frame that had an untried value
C2_Witness ==
  /\ SolveReturned
  /\ solution = UnsolvableMsg
  /\ puzzle = DeadEndPuzzle
  /\ attemptCount = 6

\* C3: if the initial board has a digit repeated in a row, column or region,
\* solve() returns 'invalid board' before the first loop iteration: nothing is
\* placed or pushed, the board is as it was set from the puzzle, the outcome
\* is not 'Unsolvable puzzle layout', and the route answers
\* {error: 'Puzzle cannot be solved'}.
C3_InvalidBoardReturnsAtOnce ==
  (SolveCalled /\ HasRepeat(puzzle)) =>
    /\ pc = "idle"
    /\ solution = InvalidBoardMsg
    /\ attemptCount = 0
    /\ attemptStack = <<>>
    /\ getStringFromBoard(sudokuBoard) = puzzle
    /\ response = [error |-> "Puzzle cannot be solved"]

\* solve() has returned on the board of the tests that holds 7 twice in row A
C3_Witness ==
  /\ SolveReturned
  /\ puzzle = RepeatedDigitPuzzle
  /\ solution = InvalidBoardMsg

\* C4: solve() ends after at most the ceiling of loop iterations with one of
\* four outcomes: 'invalid board', 'Unsolvable puzzle layout', 'timeout
\* attempting to solve' or an 81-character string of digits.  Every iteration
\* counts one attempt or returns, the count never passes the ceiling, the scan
\* of an unsolved board always finds an empty cell, and no call ends in a
\* TypeError.
C4_SolveTerminatesWithOutcome ==
  /\ [](/\ attemptCount <= AttemptCeiling
        /\ pc = "loop" =>
             /\ attemptCount < AttemptCeiling
             /\ \A s \in {isBoardSolved(sudokuBoard)} :
                  s.ok \/ Len(ScanCells(s.board).cells) > 0
        /\ (SolveCalled /\ pc = "idle") =>
             /\ response # [threw |-> "TypeError"]
             /\ \/ solution \in FailureMsgs
                \/ /\ Len(solution) = 81
                   /\ \A k \in 1..81 : solution[k] \in Digits19)
  /\ [][pc = "loop" =>
         pc' = "idle" \/ (pc' = "loop" /\ attemptCount' = attemptCount + 1)]_vars

\* solve() has returned at the ceiling
C4_Witness ==
  /\ SolveReturned
  /\ solution = TimeoutMsg
  /\ attemptCount = AttemptCeiling
  /\ puzzle = SevenLeft

\* C5: solve() returns 'timeout attempting to solve' only if the number of
\* attempts has passed the ceiling with the board still unsolved; a search
\* whose board becomes solved by an attempt numbered at most the ceiling
\* returns the solved string.
C5_TimeoutOnlyWhenUnsolved ==
  (SolveReturned /\ solution = TimeoutMsg) =>
    /\ attemptCount > AttemptCeiling
    /\ ~IsSolvedString(getStringFromBoard(sudokuBoard))

\* C6: two runs of solve() on the same initial board, with the solver built
\* as routes/api.js builds it, return the same outcome.
C6_SameOutcomeOnRepeat ==
  (SolveReturned /\ lastSolve.puzzle = puzzle /\ lastSolve.solution # NoString)
    => solution = lastSolve.solution

\* an 81-character string of '.' and '1'-'9'
IsPuzzleString(s) ==
  Len(s) = 81 /\ \A k \in 1..81 : s[k] \in Digits19 \cup {"."}

\* exactly one letter A-I followed by one digit 1-9
WellFormedCoordinate(c) == Len(c) = 2 /\ c[1] \in Letters /\ c[2] \in Digits19

\* exactly one digit 1-9
WellFormedValue(v) == Len(v) = 1 /\ v[1] \in Digits19

\* the cell that a coordinate names: the letter is the column, the digit the row
TargetIndex(c) ==
  ((CHOOSE k \in 0..8 : NumberToChar(k + 1) = c[2]) * 9)
    + (CHOOSE k \in 0..8 :
         <<"A", "B", "C", "D", "E", "F", "G", "H", "I">>[k + 1] = c[1])

\* ch occurs in a cell other than i of the group of cell i
OccursElsewhere(s, Group(_), i, ch) ==
  \E j \in 0..80 : j # i /\ Group(j) = Group(i) /\ s[j + 1] = ch

\* the groups in which ch occurs in a cell other than i, in the handler's order
ConflictGroups(s, i, ch) ==
  (IF OccursElsewhere(s, BoxOf, i, ch) THEN <<"region">> ELSE <<>>)
    \o (IF OccursElsewhere(s, ColumnOf, i, ch) THEN <<"column">> ELSE <<>>)
    \o (IF OccursElsewhere(s, RowOf, i, ch) THEN <<"row">> ELSE <<>>)

\* the answer that lists exactly the groups where ch occurs elsewhere
ConflictAnswer(s, i, ch) ==
  IF ConflictGroups(s, i, ch) = <<>> THEN [valid |-> TRUE]
  ELSE [valid |-> FALSE, conflicts |-> ConflictGroups(s, i, ch)]

\* /api/check has answered a request whose three fields are well formed
CheckAnswered ==
  /\ route = "/api/check"
  /\ IsPuzzleString(puzzle)
  /\ WellFormedCoordinate(coordinate)
  /\ WellFormedValue(value)

C8_A2HasRowConflictOnly ==
  (route = "/api/check" /\ puzzle = TestPuzzle
     /\ coordinate = <<"A", "2">> /\ value = <<"1">>)
    => response = [valid |-> FALSE, conflicts |-> <<"row">>]

\* C9: /api/check answers 'Invalid coordinate' for every coordinate that is
\* not exactly a letter A-I and a digit 1-9, and 'Invalid value' for every
\* value that is not exactly a digit 1-9, before it calls the solver, so that
\* no row or column outside 0-8 and no value outside 1-9 reaches the solver.
C9_MalformedFieldsRejected ==
  (route = "/api/check" /\ puzzle # NoString /\ coordinate # NoString
     /\ value # NoString) =>
    /\ ~WellFormedCoordinate(coordinate) =>
         response = [error |-> "Invalid coordinate"] /\ called = <<>>
    /\ (WellFormedCoordinate(coordinate) /\ ~WellFormedValue(value)) =>
         response = [error |-> "Invalid value"] /\ called = <<>>
    /\ placement # <<>> =>
         /\ placement[1] \in 0..8
         /\ placement[2] \in 0..8
         /\ placement[3] \in 1..9

\* C10: for a non-empty puzzle whose length is not 81, /api/solve, and
\* /api/check once coordinate and value have passed, answer 'Expected puzzle
\* to be 81 characters long', also when the string has invalid characters; for
\* 81 characters with one outside '.', '1'-'9' they answer 'Invalid characters
\* in puzzle'; neither setBoardFromString nor solve() runs and the board is
\* unchanged.
C10_MalformedPuzzleRejected ==
  [][(/\ requests' = requests + 1
      /\ puzzle' # NoString
      /\ ~IsPuzzleString(puzzle')
      /\ \/ route' = "/api/solve"
         \/ /\ route' = "/api/check"
            /\ TestCoordinate(coordinate')
            /\ TestValue(value'))
     => /\ response' =
             IF Len(puzzle') # 81
             THEN [error |-> "Expected puzzle to be 81 characters long"]
             ELSE [error |-> "Invalid characters in puzzle"]
        /\ "setBoardFromString" \notin Range(called')
        /\ "solve" \notin Range(called')
        /\ sudokuBoard' = sudokuBoard
        /\ pc' = "idle"]_vars

\* a request with 80 characters, one of them invalid, has been answered after
\* an earlier request had set the board
C10_Witness ==
  /\ puzzle = ShortPuzzle
  /\ response = [error |-> "Expected puzzle to be 81 characters long"]
  /\ sudokuBoard # EmptyBoard

-----------------------------------------------------------------------------
(* The board as a 9 x 9 grid, read from the nested array by the layout of  *)
(* the data model: region (row / 3) * 3 + column / 3, region row row % 3,  *)
(* cell column % 3.                                                        *)

CellAt(b, row, column) ==
  b[((row \div 3) * 3) + (column \div 3)][row % 3][column % 3]

Grid == (0..8) \X (0..8)

\* every cell of b is empty or holds an integer 1-9
IsBoard(b) == \A rc \in Grid : CellAt(b, rc[1], rc[2]) \in {NULL} \cup (1..9)

RowCells(row, column) == {rc \in Grid : rc[1] = row}

ColumnCells(row, column) == {rc \in Grid : rc[2] = column}

RegionCells(row, column) ==
  {rc \in Grid : rc[1] \div 3 = row \div 3 /\ rc[2] \div 3 = column \div 3}

\* the values of the cells of a group other than the cell (row, column)
OtherValues(b, cells, row, column) ==
  {CellAt(b, rc[1], rc[2]) : rc \in cells \ {<<row, column>>}}

\* two distinct occupied cells of one row, column or region hold the same digit
BoardHasRepeat(b) ==
  \E rc \in Grid :
    /\ CellAt(b, rc[1], rc[2]) # NULL
    /\ CellAt(b, rc[1], rc[2]) \in
         OtherValues(b, RowCells(rc[1], rc[2]) \cup ColumnCells(rc[1], rc[2])
                          \cup RegionCells(rc[1], rc[2]), rc[1], rc[2])

\* the method of the step is name, called on the instance
Calls(name) == requests' = requests + 1 /\ called' = <<name>>

\* C11: on a board whose cells hold empty or 1-9, for (row, column) in 0-8 and
\* a value 1-9, each of isValidRowPlacement, isValidColumnPlacement and
\* isValidRegionPlacement returns false when the target cell is occupied, and
\* otherwise true iff the value is in none of the other 8 cells of the row,
\* column or region; none of them changes the board.
C11_PlacementPredicates ==
  [][\A name \in {"isValidRowPlacement", "isValidColumnPlacement",
                  "isValidRegionPlacement"} :
       (Calls(name) /\ IsBoard(sudokuBoard)) =>
         LET row == placement'[1]
             column == placement'[2]
             cells == CASE name = "isValidRowPlacement" -> RowCells(row, column)
                        [] name = "isValidColumnPlacement" ->
                             ColumnCells(row, column)
                        [] OTHER -> RegionCells(row, column)
         IN  /\ sudokuBoard' = sudokuBoard
             /\ response'.returned =
                  (/\ CellAt(sudokuBoard, row, column) = NULL
                   /\ placement'[3] \notin
                        OtherValues(sudokuBoard, cells, row, column))]_vars

\* isValidColumnPlacement has returned false for an empty cell
C11_Witness ==
  /\ called = <<"isValidColumnPlacement">>
  /\ IsBoard(sudokuBoard)
  /\ CellAt(sudokuBoard, placement[1], placement[2]) = NULL
  /\ response = [returned |-> FALSE]

\* C12: after any sequence of setCell, removeCell and setBoardFromString calls
\* every cell holds empty or an integer 1-9: setCell with a value that is
\* neither empty nor a digit 1-9 leaves the cell unchanged.
C12_CellsAreEmptyOrDigits ==
  \A rc \in Grid : CellAt(sudokuBoard, rc[1], rc[2]) \in {NULL} \cup (1..9)

\* C13: for every 81-character string s over '.', '1'-'9', getStringFromBoard()
\* right after setBoardFromString(s) returns s, whatever the board held;
\* character i is in cell (floor(i / 9), i mod 9), and the 81 indices map to
\* 81 distinct slots of the nested array.
C13_RoundTrip ==
  /\ [](/\ Cardinality({<<regionIndex(i), regionRowIndex(i),
                          regionRowCellIndex(i)>> : i \in 0..80}) = 81
        /\ (called = <<"setBoardFromString">> /\ IsPuzzleString(puzzle)) =>
             \A i \in 0..80 :
               LET expected == IF puzzle[i + 1] = "." THEN NULL
                               ELSE CHOOSE n \in 1..9 :
                                      NumberToChar(n) = puzzle[i + 1]
               IN  /\ getCell(sudokuBoard, i \div 9, i % 9) = expected
                   /\ CellAt(sudokuBoard, i \div 9, i % 9) = expected)
  /\ [][(/\ called = <<"setBoardFromString">>
         /\ IsPuzzleString(puzzle)
         /\ Calls("getStringFromBoard")) =>
          response'.returned = puzzle]_vars

\* getStringFromBoard() has returned the string that replaced another board
C13_Witness ==
  /\ called = <<"getStringFromBoard">>
  /\ requests = 2
  /\ puzzle = TestPuzzle
  /\ response = [returned |-> TestPuzzle]

\* C14: for every board whose cells hold empty or 1-9, the board after
\* isValidBoard() equals the board before it, when it returns true and when
\* it returns false at the first offending cell.
C14_IsValidBoardKeepsBoard ==
  [][(Calls("isValidBoard") /\ IsBoard(sudokuBoard)) =>
       sudokuBoard' = sudokuBoard]_vars

\* isValidBoard() has returned false on a board of empty cells and digits
C14_Witness ==
  /\ called = <<"isValidBoard">>
  /\ IsBoard(sudokuBoard)
  /\ response = [returned |-> FALSE]
  /\ puzzle = RepeatedDigitPuzzle

\* C15: on a board whose cells hold empty or 1-9, isValidBoard() returns true
\* iff no two distinct occupied cells of one row, column or region hold the
\* same digit; an empty board is valid.
C15_IsValidBoardIffNoRepeat ==
  [][(Calls("isValidBoard") /\ IsBoard(sudokuBoard)) =>
       response'.returned = ~BoardHasRepeat(sudokuBoard)]_vars

\* isValidBoard() has returned false on a board whose only repeat is in a column
C15_Witness ==
  /\ called = <<"isValidBoard">>
  /\ requests = 1
  /\ puzzle = RepeatedInColumn
  /\ response = [returned |-> FALSE]

\* C16: on a board whose cells hold empty or 1-9, getValidPossibleValues(row,
\* column) returns for an empty cell 1..9 minus the values of its row, column
\* and region, and for an occupied cell the set of its value alone; the board
\* after the call equals the board before it.
C16_PossibleValues ==
  [][(Calls("getValidPossibleValues") /\ IsBoard(sudokuBoard)) =>
       LET row == placement'[1]
           column == placement'[2]
           cellValue == CellAt(sudokuBoard, row, column)
           cells == RowCells(row, column) \cup ColumnCells(row, column)
                      \cup RegionCells(row, column)
       IN  /\ sudokuBoard' = sudokuBoard
           /\ response'.returned =
                IF cellValue = NULL
                THEN (1..9) \ OtherValues(sudokuBoard, cells, row, column)
                ELSE {cellValue}]_vars

\* getValidPossibleValues has returned the candidates of an empty cell
C16_Witness ==
  /\ called = <<"getValidPossibleValues">>
  /\ IsBoard(sudokuBoard)
  /\ puzzle = TestPuzzle
  /\ placement = <<0, 1>>
  /\ CellAt(sudokuBoard, 0, 1) = NULL
  /\ response = [returned |-> {6, 7}]

\* the empty cells of b
EmptyCells(b) == {rc \in Grid : CellAt(b, rc[1], rc[2]) = NULL}

\* the digits in no other cell of the row, column and region of cell rc
CandidatesAt(b, rc) ==
  (1..9) \ OtherValues(b, RowCells(rc[1], rc[2]) \cup ColumnCells(rc[1], rc[2])
                            \cup RegionCells(rc[1], rc[2]), rc[1], rc[2])

\* the empty cells of b that have the fewest candidates
FewestCandidates(b) ==
  {rc \in EmptyCells(b) :
     \A other \in EmptyCells(b) :
       Cardinality(CandidatesAt(b, rc)) <= Cardinality(CandidatesAt(b, other))}

\* the step is an iteration of the loop that pushes on the stack as it is
IsPlacement ==
  /\ pc = "loop"
  /\ Len(attemptStack') = Len(attemptStack) + 1
  /\ SubSeq(attemptStack', 1, Len(attemptStack)) = attemptStack

\* C17: in every iteration of the loop of solve() the list that the cell is
\* picked from holds exactly the empty cells with the fewest candidates, each
\* with its candidates, never an occupied cell; the cell of a frame pushed is
\* one of them and the value placed one of its candidates.
C17_ScanSelectsFewestCandidates ==
  /\ [](pc = "loop" =>
          \A s \in {isBoardSolved(sudokuBoard)} :
            ~s.ok =>
              \A scan \in {ScanCells(sudokuBoard)} :
                /\ {<<scan.cells[k].row, scan.cells[k].column>> :
                      k \in 1..Len(scan.cells)} = FewestCandidates(sudokuBoard)
                /\ Len(scan.cells) = Cardinality(FewestCandidates(sudokuBoard))
                /\ \A k \in 1..Len(scan.cells) :
                     /\ Range(scan.cells[k].values) =
                          CandidatesAt(sudokuBoard, <<scan.cells[k].row,
                                                      scan.cells[k].column>>)
                     /\ Len(scan.cells[k].values) =
                          Cardinality(Range(scan.cells[k].values)))
  /\ [][IsPlacement =>
          LET frame == attemptStack'[Len(attemptStack')]
              rc == <<frame.row, frame.column>>
          IN  /\ rc \in FewestCandidates(sudokuBoard)
              /\ frame.setValue \in CandidatesAt(sudokuBoard, rc)
              /\ CellAt(sudokuBoard', rc[1], rc[2]) = frame.setValue]_vars

\* the loop is at a board where several empty cells tie for the fewest
\* candidates, after one cell has been filled
C17_Witness ==
  /\ pc = "loop"
  /\ puzzle = TwoSolutions
  /\ Len(attemptStack) = 1
  /\ Cardinality(FewestCandidates(sudokuBoard)) >= 2

\* the index of the cell of a frame in an 81-character string
FrameIndex(frame) == (frame.row * 9) + frame.column + 1

\* the step is an iteration of the loop that went back on the stack
IsBacktrack ==
  /\ pc = "loop"
  /\ pc' = "loop"
  /\ attemptCount' = attemptCount + 1
  /\ Len(attemptStack') <= Len(attemptStack)

\* C18: at a dead end with a non-empty stack solve() discards the frames from
\* the top down to the most recent frame with untried values, and places one
\* of that frame's untried values in its cell, removing it from the list:
\* the board after the step is the board before that frame's decision with
\* the new value in the cell, the cells of the discarded frames are empty,
\* and no frame places a value twice.
C18_BacktrackToLastChoice ==
  /\ [](\A j \in 1..Len(attemptStack) :
          LET frame == attemptStack[j]
              before == IF j = 1 THEN puzzle ELSE attemptStack[j - 1].string
          IN  /\ before[FrameIndex(frame)] = "."
              /\ frame.string = [before EXCEPT ![FrameIndex(frame)] =
                                                 NumberToChar(frame.setValue)]
              /\ frame.setValue \notin Range(frame.values)
              /\ Len(frame.values) = Cardinality(Range(frame.values)))
  /\ [][IsBacktrack =>
          LET k == Len(attemptStack')
              old == attemptStack[k]
              new == attemptStack'[k]
              before == IF k = 1 THEN puzzle ELSE attemptStack[k - 1].string
              after == getStringFromBoard(sudokuBoard')
          IN  /\ k >= 1
              /\ EmptyCells(sudokuBoard) # {}
              /\ \E rc \in EmptyCells(sudokuBoard) :
                   CandidatesAt(sudokuBoard, rc) = {}
              /\ SubSeq(attemptStack', 1, k - 1) = SubSeq(attemptStack, 1, k - 1)
              /\ \A j \in (k + 1)..Len(attemptStack) :
                   /\ Len(attemptStack[j].values) = 0
                   /\ after[FrameIndex(attemptStack[j])] = "."
              /\ Len(old.values) > 0
              /\ new.row = old.row
              /\ new.column = old.column
              /\ new.setValue \in Range(old.values)
              /\ new.setValue # old.setValue
              /\ Range(new.values) = Range(old.values) \ {new.setValue}
              /\ after = [before EXCEPT ![FrameIndex(old)] =
                                          NumberToChar(new.setValue)]
              /\ new.string = after]_vars

\* the loop continues after it went back to a frame below the top
C18_Witness ==
  /\ pc = "loop"
  /\ puzzle = DeadEndPuzzle
  /\ Len(attemptStack) >= 1
  /\ attemptCount > Len(attemptStack) + 1

\* C19: in every state of the search and in the string solve() returns, each
\* cell that was occupied in the initial board holds its initial digit.
C19_GivensAreKept ==
  SolveCalled =>
    \A i \in 0..80 :
      puzzle[i + 1] # "." =>
        /\ CellAt(sudokuBoard, RowOf(i), ColumnOf(i)) =
             (CHOOSE n \in 1..9 : NumberToChar(n) = puzzle[i + 1])
        /\ (SolveReturned /\ solution \notin FailureMsgs) =>
             solution[i + 1] = puzzle[i + 1]

\* the search goes on from a snapshot that it restored two iterations ago
C19_Witness ==
  /\ SolveCalled
  /\ pc = "loop"
  /\ puzzle = DeadEndPuzzle
  /\ attemptCount = 5
  /\ Len(attemptStack) = 3

\* C20: at the start of every iteration of the loop the board satisfies
\* isValidBoard(), the frames of the stack are on pairwise distinct cells that
\* were empty in the initial board, the occupied cells are the givens plus
\* one for each frame, and the board is the string of the top frame.
C20_SearchInvariant ==
  pc = "loop" =>
    /\ isValidBoard(sudokuBoard).ok
    /\ ~BoardHasRepeat(sudokuBoard)
    /\ \A j \in 1..Len(attemptStack) :
         /\ puzzle[FrameIndex(attemptStack[j])] = "."
         /\ \A k \in 1..Len(attemptStack) :
              FrameIndex(attemptStack[j]) = FrameIndex(attemptStack[k]) => j = k
    /\ Cardinality(Grid \ EmptyCells(sudokuBoard)) =
         Cardinality({i \in 1..81 : puzzle[i] # "."}) + Len(attemptStack)
    /\ Len(attemptStack) > 0 =>
         getStringFromBoard(sudokuBoard) =
           attemptStack[Len(attemptStack)].string

\* the loop starts an iteration with three frames on the stack
C20_Witness ==
  /\ pc = "loop"
  /\ puzzle = SixLeft
  /\ Len(attemptStack) = 3
  /\ attemptCount = 3

-----------------------------------------------------------------------------
(* Requests on the one solver of routes/api.js *)

\* the board whose 81 cells are those of string s, row after row
BoardOfString(s) ==
  [g \in 0..8 |-> [r \in 0..2 |-> [c \in 0..2 |->
     LET row == ((g \div 3) * 3) + r
         column == ((g % 3) * 3) + c
         ch == s[(row * 9) + column + 1]
     IN  IF ch = "." THEN NULL
         ELSE CHOOSE k \in 1..9 : NumberToChar(k) = ch]]]

\* the step is a request to the server
IsRequest == requests' = requests + 1

\* the request of the step passed the tests of its fields: the handler went
\* on to setBoardFromString
Accepted == \E k \in 1..Len(called') : called'[k] = "setBoardFromString"

\* C21: requests on the shared solver do not influence each other.  Whatever
\* the requests before it left on the board, the answer to a /api/check
\* request is the answer a newly constructed solver gives to the same puzzle,
\* coordinate and value; an accepted request, /api/check or /api/solve, first
\* overwrites all 81 cells from its own puzzle string, and a rejected request
\* leaves the board as it was.
C21_RequestsAreIndependent ==
  [][IsRequest =>
       /\ route' = "/api/check" =>
            response' = CheckResponse(EmptyBoard, puzzle', coordinate', value')
       /\ Accepted => sudokuBoard' = BoardOfString(puzzle')
       /\ ~Accepted => sudokuBoard' = sudokuBoard]_vars

\* /api/check has answered the second request the solver served, for an empty
\* cell of the puzzle that holds a candidate of that cell
C21_Witness ==
  /\ requests = 2
  /\ route = "/api/check"
  /\ puzzle = TestPuzzle
  /\ sudokuBoard = BoardOfString(TestPuzzle)
  /\ coordinate = <<"A", "1">>
  /\ value = <<"7">>
  /\ response = [valid |-> TRUE]

====
